---- MODULE Spec2Model ----
(***************************************************************************)
(* The mock job resource server of jobson (mock-rails-server.py): the two  *)
(* module-level tables jobs and job_outputs, and the request handlers of   *)
(* MockRailsHandler that read and change them.  The server is a plain      *)
(* HTTPServer (run_server): it handles one request at a time, so every     *)
(* handler is one atomic step.                                             *)
(***************************************************************************)
EXTENDS Integers, Sequences, FiniteSets, TLC

\* Bound on the number of uuid.uuid4() calls (jobs ever created).
MaxJobs == 2

VARIABLES
    jobs,         \* dict job_id -> job, in insertion order
    job_outputs,  \* dict job_id -> {stdout, stderr}, in insertion order
    uuidCount,    \* how many uuids uuid.uuid4() has handed out
    clock,        \* how many times datetime.now() has been called
    req,          \* the request handled last
    resp,         \* the response it got
    hist,         \* the client's running GET, DELETE, GET sequence on one job
    issued,       \* the ids given to created jobs so far, in creation order
    burst,        \* the submissions handled in a row: what each was answered
    pc,           \* where the server's single thread is inside a handler
    cmp           \* the comparison script: its last test_endpoint call

vars == <<jobs, job_outputs, uuidCount, clock, req, resp, hist, issued, burst, pc, cmp>>

----------------------------------------------------------------------------
\* JSON / Python values

\* Python None, JSON null
None == [t |-> "null"]
\* a Python str
JStr(s) == [t |-> "str", v |-> s]
\* a Python int, by its decimal numeral
JInt(s) == [t |-> "int", v |-> s]
IsStr(x) == x.t = "str"

\* Python dicts whose order does not matter here (a parsed request body, an
\* inputs mapping) are functions; {} is the function of empty domain.
EmptyDict == [k \in {} |-> None]

\* d.get(k, default)
DictGet(d, k, default) == IF k \in DOMAIN d THEN d[k] ELSE default

\* The two tables are dicts whose iteration (insertion) order is observable
\* in listings: sequences of entries [key, val].
Keys(tbl) == {tbl[i].key : i \in DOMAIN tbl}

\* k in tbl
Has(tbl, k) == k \in Keys(tbl)

IndexOf(tbl, k) == CHOOSE i \in DOMAIN tbl : tbl[i].key = k

\* tbl[k]
Lookup(tbl, k) == tbl[IndexOf(tbl, k)].val

\* tbl[k] = v : a present key keeps its position, a new key goes last
Store(tbl, k, v) ==
    IF Has(tbl, k)
    THEN [tbl EXCEPT ![IndexOf(tbl, k)] = [key |-> k, val |-> v]]
    ELSE Append(tbl, [key |-> k, val |-> v])

\* faulty variant of Remove: the last entry is moved into the freed position
RemoveSwap(tbl, k) ==
    LET i == IndexOf(tbl, k)
    IN  IF i = Len(tbl)
        THEN SubSeq(tbl, 1, i - 1)
        ELSE SubSeq([tbl EXCEPT ![i] = tbl[Len(tbl)]], 1, Len(tbl) - 1)

\* del tbl[k]
Remove(tbl, k) ==
    LET i == IndexOf(tbl, k)
    IN  SubSeq(tbl, 1, i - 1) \o SubSeq(tbl, i + 1, Len(tbl))

\* list(tbl.values())
Values(tbl) == [i \in DOMAIN tbl |-> tbl[i].val]

\* Python's lst[start:end] for start, end >= 0
Slice(lst, start, end) ==
    LET lo == IF start < Len(lst) THEN start ELSE Len(lst)
        hi == IF end < Len(lst) THEN end ELSE Len(lst)
    IN  IF lo < hi THEN SubSeq(lst, lo + 1, hi) ELSE <<>>

----------------------------------------------------------------------------
\* Identifiers and time

\* str(uuid.uuid4())[:8] of the n-th uuid handed out
Prefix8(n) == "0000000" \o ToString(n)

\* str(uuid.uuid4()) of the n-th uuid handed out: a value not handed out before
Uuid4(n) == Prefix8(n) \o "-0000-4000-8000-000000000000"

\* datetime.now().isoformat() of the t-th call of datetime.now(): every call
\* returns a later instant than the calls before it
IsoFormat(t) == JStr("2026-01-01T00:00:00.00000" \o ToString(t))

----------------------------------------------------------------------------
\* Responses

\* _send_json_response(data, status)
JsonResponse(data, status) ==
    [status |-> status, ctype |-> "application/json", body |-> data]

\* _send_text_response(text)
TextResponse(text) ==
    [status |-> 200, ctype |-> "text/plain", body |-> text]

\* The handler raised: http.server closes the connection, nothing is sent.
NoResponse == [status |-> 0, ctype |-> "", body |-> ""]

Request(method, route, id, data) ==
    [method |-> method, route |-> route, id |-> id, data |-> data]

----------------------------------------------------------------------------
\* The requests the clients send

\* A request body that is not JSON
InvalidJson == [t |-> "bytes", v |-> "invalid json"]

\* json.loads(post_data) returns; otherwise it raises JSONDecodeError
Parses(body) == body # InvalidJson

\* What the clients post to /api/v1/jobs: no body at all, a body without
\* spec, an unknown spec, submissions against the two catalog specs with
\* and without name and inputs (a null message included), and a body that
\* is not JSON.
Bodies ==
    {InvalidJson,
     EmptyDict,
     [name |-> JStr("n")],
     [spec |-> JStr("bogus")],
     [spec |-> JStr("echo")],
     [spec |-> JStr("echo"), name |-> JStr("n"),
      inputs |-> [message |-> JStr("hi")]],
     [spec |-> JStr("echo"), inputs |-> [message |-> None]],
     [spec |-> JStr("sleep"), name |-> JStr("n"),
      inputs |-> [seconds |-> JInt("1")]]}

\* The job ids a client puts in a path: every uuid the server may hand out
\* (those not handed out yet are ids of no job) and the literal test-id.
ReqIds == {Uuid4(n) : n \in 1..MaxJobs} \cup {"test-id"}

\* The query strings of GET /api/v1/jobs, as parse_qs returns them: a dict
\* from parameter name to the text of its value.
Queries ==
    {EmptyDict,
     ("page-size" :> "0"),
     ("page-size" :> "1"),
     ("page" :> "1"),
     ("page" :> "1") @@ ("page-size" :> "1"),
     ("page" :> "0' OR '1'='1")}

----------------------------------------------------------------------------
\* The server thread: HTTPServer.serve_forever takes the next request only
\* when the handler of the one before has returned.
Idle == [at |-> "idle", job_id |-> ""]

\* faulty variant of ServerFree: a handler starts while another is running
\* (a thread per request)
ServerFreeAlways == TRUE

\* the server thread is between two requests
ServerFree == pc = Idle

----------------------------------------------------------------------------
\* The client's GET, DELETE, GET sequence (test_delete_job): hist holds the
\* requests of the sequence made so far on one job that was stored when the
\* sequence began, and is emptied by any request that is not its next one.
Track(h, op, id, status, stored) ==
    LET e == [op |-> op, id |-> id, status |-> status]
    IN  IF Len(h) = 2 /\ op = "get" /\ h[1].id = id THEN Append(h, e)
        ELSE IF Len(h) = 1 /\ op = "delete" /\ h[1].id = id THEN Append(h, e)
        ELSE IF op = "get" /\ stored THEN <<e>>
        ELSE <<>>

----------------------------------------------------------------------------
\* do_POST /api/v1/jobs

\* faulty variant of SpecExists: any named spec is accepted
SpecExistsAnyNamed(spec_id) == spec_id # None

\* spec_id in ['echo', 'sleep']
SpecExists(spec_id) == spec_id \in {JStr("echo"), JStr("sleep")}

\* faulty variant of NewJob: the job starts as RUNNING
NewJobRunning(job_id, prefix, data, spec_id, t1, t2) ==
    [id |-> job_id,
     name |-> DictGet(data, "name", JStr("Job " \o prefix)),
     spec |-> spec_id,
     inputs |-> DictGet(data, "inputs", EmptyDict),
     timestamps |-> [submitted |-> IsoFormat(t1),
                     started |-> IsoFormat(t2),
                     finished |-> None],
     latestStatus |-> "RUNNING"]

\* faulty variant of NewJob: the generated label carries the whole id
NewJobLongLabel(job_id, prefix, data, spec_id, t1, t2) ==
    [id |-> job_id,
     name |-> DictGet(data, "name", JStr("Job " \o job_id)),
     spec |-> spec_id,
     inputs |-> DictGet(data, "inputs", EmptyDict),
     timestamps |-> [submitted |-> IsoFormat(t1),
                     started |-> IsoFormat(t2),
                     finished |-> None],
     latestStatus |-> "SUBMITTED"]

\* faulty variant of NewJob: the inputs of the submission are dropped
NewJobNoInputs(job_id, prefix, data, spec_id, t1, t2) ==
    [id |-> job_id,
     name |-> DictGet(data, "name", JStr("Job " \o prefix)),
     spec |-> spec_id,
     inputs |-> EmptyDict,
     timestamps |-> [submitted |-> IsoFormat(t1),
                     started |-> IsoFormat(t2),
                     finished |-> None],
     latestStatus |-> "SUBMITTED"]

\* the job dict built at creation
NewJob(job_id, prefix, data, spec_id, t1, t2) ==
    [id |-> job_id,
     name |-> DictGet(data, "name", JStr("Job " \o prefix)),
     spec |-> spec_id,
     inputs |-> DictGet(data, "inputs", EmptyDict),
     timestamps |-> [submitted |-> IsoFormat(t1),
                     started |-> IsoFormat(t2),
                     finished |-> None],
     latestStatus |-> "SUBMITTED"]

\* data.get('inputs', {}).get('message', 'Hello, World!')
EchoMessage(data) ==
    DictGet(DictGet(data, "inputs", EmptyDict), "message", JStr("Hello, World!"))

\* the outputs record of an echo job
EchoOutputs(message) == [stdout |-> message.v \o "\n", stderr |-> ""]

\* job['latestStatus'] = 'FINISHED'; job['timestamps']['finished'] = now
FinishJob(job, t3) ==
    [job EXCEPT !.latestStatus = "FINISHED",
                !.timestamps.finished = IsoFormat(t3)]

\* faulty variant of NewJobId: the id is derived from the size of the table
NewJobIdByTableSize == Uuid4(Len(jobs) + 1)

\* job_id = str(uuid.uuid4())
NewJobId == Uuid4(uuidCount + 1)

\* The run of submissions handled in a row (clients submitting together):
\* base is the number of stored jobs when the run began, answers what each
\* submission was answered and the id it was given.
NoBurst == [base |-> 0, answers |-> <<>>]

Answered(b, total, status, job_id) ==
    [base |-> IF b.answers = <<>> THEN total ELSE b.base,
     answers |-> Append(b.answers, [status |-> status, id |-> job_id])]

CreateJobOf(bodies, maxJobs) ==
    \E data \in bodies :
        LET spec_id == DictGet(data, "spec", None)
        IN  /\ ServerFree
            /\ UNCHANGED <<pc, cmp>>
            /\ req' = Request("POST", "jobs", "", data)
            /\ hist' = <<>>
            /\ IF ~Parses(data)
               THEN \* _get_post_data raises JSONDecodeError
                    /\ resp' = NoResponse
                    /\ burst' = NoBurst
                    /\ UNCHANGED <<jobs, job_outputs, uuidCount, clock, issued>>
               ELSE IF ~SpecExists(spec_id)
               THEN /\ resp' = JsonResponse([error |-> "Invalid spec"], 400)
                    /\ burst' = NoBurst
                    /\ UNCHANGED <<jobs, job_outputs, uuidCount, clock, issued>>
               ELSE /\ uuidCount < maxJobs
                    /\ LET n == uuidCount + 1
                           job_id == NewJobId
                           t1 == clock + 1
                           t2 == clock + 2
                           t3 == clock + 3
                           job == NewJob(job_id, Prefix8(n), data, spec_id, t1, t2)
                           message == EchoMessage(data)
                       IN  /\ uuidCount' = n
                           /\ issued' = Append(issued, job_id)
                           /\ IF spec_id # JStr("echo")
                              THEN \* no execution is simulated
                                   /\ clock' = t2
                                   /\ jobs' = Store(jobs, job_id, job)
                                   /\ UNCHANGED job_outputs
                                   /\ resp' = JsonResponse(job, 200)
                              ELSE IF ~IsStr(message)
                              THEN \* message + '\n' raises TypeError
                                   /\ clock' = t2
                                   /\ jobs' = Store(jobs, job_id, job)
                                   /\ UNCHANGED job_outputs
                                   /\ resp' = NoResponse
                              ELSE /\ clock' = t3
                                   /\ jobs' = Store(jobs, job_id, FinishJob(job, t3))
                                   /\ job_outputs' =
                                        Store(job_outputs, job_id, EchoOutputs(message))
                                   /\ resp' = JsonResponse(FinishJob(job, t3), 200)
                           /\ burst' = Answered(burst, Len(jobs), resp'.status, job_id)

CreateJob == CreateJobOf(Bodies, MaxJobs)

----------------------------------------------------------------------------
\* do_POST /api/v1/jobs/{id}/abort

\* faulty variant of AbortJob: the finished time is overwritten as well
AbortJobStamped(job) ==
    [job EXCEPT !.latestStatus = "ABORTED",
                !.timestamps.finished = IsoFormat(clock + 1)]

\* faulty variant of AbortJob: the inputs are cleared as well
AbortJobCleared(job) ==
    [job EXCEPT !.latestStatus = "ABORTED", !.inputs = EmptyDict]

\* jobs[job_id]['latestStatus'] = 'ABORTED'
AbortJob(job) == [job EXCEPT !.latestStatus = "ABORTED"]

Abort ==
    \E job_id \in ReqIds :
        /\ ServerFree
        /\ req' = Request("POST", "abort", job_id, EmptyDict)
        /\ hist' = <<>>
        /\ IF Has(jobs, job_id)
           THEN /\ jobs' = Store(jobs, job_id, AbortJob(Lookup(jobs, job_id)))
                /\ resp' = JsonResponse([message |-> "Job aborted"], 200)
           ELSE /\ resp' = JsonResponse([error |-> "Job not found"], 404)
                /\ UNCHANGED jobs
        /\ burst' = NoBurst
        /\ UNCHANGED <<job_outputs, uuidCount, clock, issued, pc, cmp>>

----------------------------------------------------------------------------
\* do_DELETE /api/v1/jobs/{id}

\* faulty variant of DeleteOutputs: the outputs record is left behind
DeleteOutputsKept(outs, job_id) == outs

\* if job_id in job_outputs: del job_outputs[job_id]
DeleteOutputs(outs, job_id) ==
    IF Has(outs, job_id) THEN Remove(outs, job_id) ELSE outs

\* faulty variant of DeleteJob: the job record is left in the table
DeleteJobKept(tbl, job_id) == tbl

\* del jobs[job_id]
DeleteJob(tbl, job_id) == Remove(tbl, job_id)

\* The paths DELETE is sent to: /api/v1/jobs/{id} ("job") and a sub-resource
\* below it, /api/v1/jobs/{id}/stdout ("stdout").  do_DELETE takes every
\* path that starts with /api/v1/jobs/ and reads the id from path.split('/')[4].
DeleteRoutes == {"job", "stdout"}

DeleteOf(ids, routes) ==
    \E job_id \in ids, route \in routes :
        /\ ServerFree
        /\ req' = Request("DELETE", route, job_id, EmptyDict)
        /\ IF Has(jobs, job_id)
           THEN /\ jobs' = DeleteJob(jobs, job_id)
                /\ job_outputs' = DeleteOutputs(job_outputs, job_id)
                /\ resp' = JsonResponse([message |-> "Job deleted"], 200)
           ELSE /\ resp' = JsonResponse([error |-> "Job not found"], 404)
                /\ UNCHANGED <<jobs, job_outputs>>
        /\ hist' = IF route = "job"
                   THEN Track(hist, "delete", job_id, resp'.status, Has(jobs, job_id))
                   ELSE <<>>
        /\ burst' = NoBurst
        /\ UNCHANGED <<uuidCount, clock, issued, pc, cmp>>

Delete == DeleteOf(ReqIds, DeleteRoutes)

\* The same handler statement by statement: del jobs[job_id] ...
DeleteBegin ==
    \E job_id \in ReqIds :
        /\ ServerFree
        /\ req' = Request("DELETE", "job", job_id, EmptyDict)
        /\ IF Has(jobs, job_id)
           THEN /\ jobs' = DeleteJob(jobs, job_id)
                /\ pc' = [at |-> "del_outputs", job_id |-> job_id]
                /\ UNCHANGED resp
           ELSE /\ resp' = JsonResponse([error |-> "Job not found"], 404)
                /\ UNCHANGED <<jobs, pc>>
        /\ hist' = <<>>
        /\ burst' = NoBurst
        /\ UNCHANGED <<job_outputs, uuidCount, clock, issued, cmp>>

\* ... then del job_outputs[job_id] and the response
DeleteEnd ==
    /\ pc.at = "del_outputs"
    /\ job_outputs' = DeleteOutputs(job_outputs, pc.job_id)
    /\ resp' = JsonResponse([message |-> "Job deleted"], 200)
    /\ pc' = Idle
    /\ UNCHANGED <<jobs, uuidCount, clock, issued, req, hist, burst, cmp>>

----------------------------------------------------------------------------
\* do_GET

\* faulty variant of JobDetail: the id test-id passes as it does for the
\* sub-resources
JobDetailLenient(tbl, job_id) ==
    IF Has(tbl, job_id)
    THEN JsonResponse(Lookup(tbl, job_id), 200)
    ELSE IF job_id = "test-id"
    THEN JsonResponse(EmptyDict, 200)
    ELSE JsonResponse([error |-> "Job not found"], 404)

\* GET /api/v1/jobs/{id}
JobDetail(tbl, job_id) ==
    IF Has(tbl, job_id)
    THEN JsonResponse(Lookup(tbl, job_id), 200)
    ELSE JsonResponse([error |-> "Job not found"], 404)

\* faulty variant of GetJob: reading a job takes it out of the store
GetJobConsuming ==
    \E job_id \in ReqIds :
        /\ ServerFree
        /\ req' = Request("GET", "job", job_id, EmptyDict)
        /\ resp' = JobDetail(jobs, job_id)
        /\ jobs' = IF Has(jobs, job_id) THEN Remove(jobs, job_id) ELSE jobs
        /\ hist' = <<>>
        /\ burst' = NoBurst
        /\ UNCHANGED <<job_outputs, uuidCount, clock, issued, pc, cmp>>

GetJob ==
    \E job_id \in ReqIds :
        /\ ServerFree
        /\ req' = Request("GET", "job", job_id, EmptyDict)
        /\ resp' = JobDetail(jobs, job_id)
        /\ hist' = Track(hist, "get", job_id, resp'.status, Has(jobs, job_id))
        /\ burst' = NoBurst
        /\ UNCHANGED <<jobs, job_outputs, uuidCount, clock, issued, pc, cmp>>

\* faulty variant of ReadOutput: a missing record reads as a placeholder
ReadOutputPending(outs, job_id, stream) ==
    IF Has(outs, job_id) THEN Lookup(outs, job_id)[stream] ELSE "(pending)"

\* job_outputs.get(job_id, {}).get(stream, '')
ReadOutput(outs, job_id, stream) ==
    IF Has(outs, job_id) THEN Lookup(outs, job_id)[stream] ELSE ""

\* GET /api/v1/jobs/{id}/stdout and /stderr
OutputResponse(tbl, outs, job_id, stream) ==
    IF ~Has(tbl, job_id) /\ job_id # "test-id"
    THEN JsonResponse([error |-> "Job not found"], 404)
    ELSE TextResponse(ReadOutput(outs, job_id, stream))

GetOutput ==
    \E job_id \in ReqIds, stream \in {"stdout", "stderr"} :
        /\ ServerFree
        /\ req' = Request("GET", stream, job_id, EmptyDict)
        /\ resp' = OutputResponse(jobs, job_outputs, job_id, stream)
        /\ hist' = <<>>
        /\ burst' = NoBurst
        /\ UNCHANGED <<jobs, job_outputs, uuidCount, clock, issued, pc, cmp>>

\* GET /api/v1/jobs/{id}/inputs
InputsResponse(tbl, job_id) ==
    IF ~Has(tbl, job_id) /\ job_id # "test-id"
    THEN JsonResponse([error |-> "Job not found"], 404)
    ELSE IF Has(tbl, job_id)
         THEN JsonResponse(Lookup(tbl, job_id).inputs, 200)
         ELSE JsonResponse(EmptyDict, 200)

GetInputs ==
    \E job_id \in ReqIds :
        /\ ServerFree
        /\ req' = Request("GET", "inputs", job_id, EmptyDict)
        /\ resp' = InputsResponse(jobs, job_id)
        /\ hist' = <<>>
        /\ burst' = NoBurst
        /\ UNCHANGED <<jobs, job_outputs, uuidCount, clock, issued, pc, cmp>>

\* spec_id.capitalize() of the spec ids a job can carry
Capitalize(text) ==
    CASE text = "echo" -> "Echo"
      [] text = "sleep" -> "Sleep"

\* the spec a job's spec sub-resource shows
JobSpecBody(spec_id) ==
    IF spec_id = JStr("echo")
    THEN [id |-> "echo",
          name |-> "Echo",
          description |-> "Simple echo command that prints input to stdout",
          expectedInputs |-> <<[id |-> "message",
                                type |-> "string",
                                name |-> "Message",
                                description |-> "The message to echo"]>>]
    ELSE [id |-> spec_id.v,
          name |-> Capitalize(spec_id.v),
          description |-> "Spec for " \o spec_id.v]

\* GET /api/v1/jobs/{id}/spec
JobSpecResponse(tbl, job_id) ==
    IF ~Has(tbl, job_id) /\ job_id # "test-id"
    THEN JsonResponse([error |-> "Job not found"], 404)
    ELSE IF Has(tbl, job_id)
         THEN JsonResponse(JobSpecBody(Lookup(tbl, job_id).spec), 200)
         ELSE JsonResponse([error |-> "Job not found"], 404)

GetJobSpec ==
    \E job_id \in ReqIds :
        /\ ServerFree
        /\ req' = Request("GET", "spec", job_id, EmptyDict)
        /\ resp' = JobSpecResponse(jobs, job_id)
        /\ hist' = <<>>
        /\ burst' = NoBurst
        /\ UNCHANGED <<jobs, job_outputs, uuidCount, clock, issued, pc, cmp>>

\* GET /api/v1/specs: the catalog, in its seeded order
SpecEntries ==
    <<[id |-> "echo", name |-> "Echo",
       description |-> "Simple echo command that prints input to stdout",
       href |-> "/api/v1/specs/echo"],
      [id |-> "sleep", name |-> "Sleep",
       description |-> "Sleep for specified seconds",
       href |-> "/api/v1/specs/sleep"]>>

ListSpecs ==
    /\ ServerFree
    /\ req' = Request("GET", "specs", "", EmptyDict)
    /\ resp' = JsonResponse([entries |-> SpecEntries], 200)
    /\ hist' = <<>>
    /\ burst' = NoBurst
    /\ UNCHANGED <<jobs, job_outputs, uuidCount, clock, issued, pc, cmp>>

\* len(jobs)
Total(tbl) == Len(tbl)

\* faulty variant of Listing: the slice runs one entry too far
ListingOneMore(tbl, page, page_size) ==
    LET job_list == Values(tbl)
        start == page * page_size
        end == start + page_size + 1
    IN  [status |-> 200, ctype |-> "application/json",
         body |-> [entries |-> Slice(job_list, start, end),
                   page |-> page,
                   pageSize |-> page_size,
                   total |-> Len(tbl)]]

\* GET /api/v1/jobs?page=..&page-size=..
Listing(tbl, page, page_size) ==
    LET job_list == Values(tbl)
        start == page * page_size
        end == start + page_size
    IN  JsonResponse([entries |-> Slice(job_list, start, end),
                      page |-> page,
                      pageSize |-> page_size,
                      total |-> Total(tbl)], 200)

\* The decimal numerals int() is given here
Numerals == {"0", "1", "2", "3", "100"}

\* int(text) succeeds
IsInt(text) == text \in Numerals

\* int(text)
IntOf(text) ==
    CASE text = "0" -> 0
      [] text = "1" -> 1
      [] text = "2" -> 2
      [] text = "3" -> 3
      [] text = "100" -> 100

\* query_params.get('page-size', [100])[0] and query_params.get('page', [0])[0]
PageSizeText(query) == DictGet(query, "page-size", "100")
PageText(query) == DictGet(query, "page", "0")

\* The listing handler: int() raises ValueError on a value that is no integer
ListingResponse(tbl, query) ==
    IF IsInt(PageSizeText(query)) /\ IsInt(PageText(query))
    THEN Listing(tbl, IntOf(PageText(query)), IntOf(PageSizeText(query)))
    ELSE NoResponse

ListJobsOf(queries) ==
    \E query \in queries :
        /\ ServerFree
        /\ req' = Request("GET", "jobs", "", query)
        /\ resp' = ListingResponse(jobs, query)
        /\ hist' = <<>>
        /\ burst' = NoBurst
        /\ UNCHANGED <<jobs, job_outputs, uuidCount, clock, issued, pc, cmp>>

ListJobs == ListJobsOf(Queries)

----------------------------------------------------------------------------
\* do_GET as a whole: the elif chain over the path. A path is the sequence
\* of its segments, so path.split('/') is <<"">> \o path and parts[4],
\* parts[5] are path[4], path[5].

\* send_response(426); send_header('Upgrade', 'websocket'); end_headers()
UpgradeRequired == [status |-> 426, ctype |-> "", body |-> "", upgrade |-> "websocket"]

RootLinks ==
    ("_links" :> [specs |-> [href |-> "/api/v1/specs"],
                  jobs |-> [href |-> "/api/v1/jobs"]])

ApiLinks ==
    ("_links" :> ([specs |-> [href |-> "/api/v1/specs"],
                   jobs |-> [href |-> "/api/v1/jobs"]]
                  @@ ("current-user" :> [href |-> "/api/v1/users/current"])))

\* faulty variant of SpecDetail: the detail of the other spec is served
SpecDetailSwapped(spec_id) ==
    IF spec_id = "echo"
    THEN [id |-> "sleep", name |-> "Sleep"]
    ELSE [id |-> "echo", name |-> "Echo"]

\* GET /api/v1/specs/echo and /api/v1/specs/sleep
SpecDetail(spec_id) ==
    IF spec_id = "echo"
    THEN [id |-> "echo",
          name |-> "Echo",
          description |-> "Simple echo command that prints input to stdout",
          expectedInputs |-> <<[id |-> "message",
                                type |-> "string",
                                name |-> "Message",
                                description |-> "The message to echo",
                                default |-> JStr("Hello, World!")]>>,
          expectedOutputs |-> <<>>,
          execution |-> [application |-> "echo",
                         arguments |-> <<"${inputs.message}">>]]
    ELSE [id |-> "sleep",
          name |-> "Sleep",
          description |-> "Sleep for specified seconds",
          expectedInputs |-> <<[id |-> "seconds",
                                type |-> "integer",
                                name |-> "Seconds",
                                description |-> "Number of seconds to sleep",
                                default |-> JInt("1")]>>,
          expectedOutputs |-> <<>>,
          execution |-> [application |-> "sleep",
                         arguments |-> <<"${inputs.seconds}">>]]

CurrentUser == [id |-> "guest", name |-> "Guest User"]

\* path.startswith(prefix + '/')
StartsWith(path, prefix) ==
    /\ Len(path) > Len(prefix)
    /\ SubSeq(path, 1, Len(prefix)) = prefix

\* faulty variant of HasUpdates: the updates paths are left to the job routes
HasUpdatesNowhere(path) == FALSE

\* '/stdout/updates' in path or '/stderr/updates' in path, for paths whose
\* segments are whole words
HasUpdates(path) ==
    \E i \in 1..(Len(path) - 1) :
        path[i] \in {"stdout", "stderr"} /\ path[i + 1] = "updates"

\* /api/v1/jobs/{id}/{endpoint}
SubResource(tbl, outs, job_id, endpoint) ==
    IF ~Has(tbl, job_id) /\ job_id # "test-id"
    THEN JsonResponse([error |-> "Job not found"], 404)
    ELSE IF endpoint \in {"stdout", "stderr"}
    THEN OutputResponse(tbl, outs, job_id, endpoint)
    ELSE IF endpoint = "inputs" THEN InputsResponse(tbl, job_id)
    ELSE IF endpoint = "spec" THEN JobSpecResponse(tbl, job_id)
    ELSE IF endpoint = "events" THEN UpgradeRequired
    ELSE JsonResponse([error |-> "Unknown endpoint"], 404)

DoGet(tbl, outs, path, query) ==
    IF path = <<>> THEN JsonResponse(RootLinks, 200)
    ELSE IF path = <<"api", "v1">> THEN JsonResponse(ApiLinks, 200)
    ELSE IF path = <<"api", "v1", "specs">>
    THEN JsonResponse([entries |-> SpecEntries], 200)
    ELSE IF path \in {<<"api", "v1", "specs", "echo">>, <<"api", "v1", "specs", "sleep">>}
    THEN JsonResponse(SpecDetail(path[4]), 200)
    ELSE IF path = <<"api", "v1", "jobs">> THEN ListingResponse(tbl, query)
    ELSE IF path = <<"api", "v1", "jobs", "events">> THEN UpgradeRequired
    ELSE IF HasUpdates(path) THEN UpgradeRequired
    ELSE IF StartsWith(path, <<"api", "v1", "jobs">>)
    THEN IF Len(path) = 4 THEN JobDetail(tbl, path[4])
         ELSE IF Len(path) = 5 THEN SubResource(tbl, outs, path[4], path[5])
         ELSE \* no branch for longer paths: the handler returns having sent nothing
              NoResponse
    ELSE IF path = <<"api", "v1", "users", "current">>
    THEN JsonResponse(CurrentUser, 200)
    ELSE IF StartsWith(path, <<"api", "v1", "specs">>)
    THEN JsonResponse([error |-> "Spec not found"], 404)
    ELSE JsonResponse([error |-> "Not found"], 404)

\* The other paths the clients GET: the fixed routes, and paths outside the
\* route table.
OtherPaths ==
    {<<>>,
     <<"api", "v1">>,
     <<"api", "v2">>,
     <<"api", "v1", "users", "current">>,
     <<"api", "v1", "specs", "echo">>,
     <<"api", "v1", "specs", "sleep">>,
     <<"api", "v1", "specs", "bogus">>,
     <<"api", "v1", "jobs", "events">>,
     <<"foo", "stdout", "updates">>}
    \cup {<<"api", "v1", "jobs", job_id, "events">> : job_id \in ReqIds}
    \cup {<<"api", "v1", "jobs", job_id, "a", "b">> : job_id \in ReqIds}
    \cup {<<"api", "v1", "jobs", job_id, "stdout", "updates">> : job_id \in ReqIds}
    \cup {<<"api", "v1", "jobs", job_id, "stderr", "updates">> : job_id \in ReqIds}
    \cup {<<"api", "v1", "jobs", "test-id", "bogus">>}

GetPath ==
    \E path \in OtherPaths :
        /\ ServerFree
        /\ req' = Request("GET", "path", "", path)
        /\ resp' = DoGet(jobs, job_outputs, path, EmptyDict)
        /\ hist' = <<>>
        /\ burst' = NoBurst
        /\ UNCHANGED <<jobs, job_outputs, uuidCount, clock, issued, pc, cmp>>

\* do_POST on a path that is neither /api/v1/jobs nor an abort path: the
\* final else of the handler
PostPaths == {<<"api", "v1", "specs">>, <<"api", "v1", "users", "current">>}

PostPath ==
    \E path \in PostPaths :
        /\ ServerFree
        /\ req' = Request("POST", "path", "", path)
        /\ resp' = JsonResponse([error |-> "Not found"], 404)
        /\ hist' = <<>>
        /\ burst' = NoBurst
        /\ UNCHANGED <<jobs, job_outputs, uuidCount, clock, issued, pc, cmp>>

\* The handler class has do_GET, do_POST and do_DELETE only: for any other
\* method BaseHTTPRequestHandler answers send_error(501).
UnsupportedMethod(method) ==
    [status |-> 501, ctype |-> "text/html;charset=utf-8",
     body |-> "Unsupported method ('" \o method \o "')"]

OtherMethods == {"PATCH", "PUT"}

OtherMethod ==
    \E method \in OtherMethods, path \in PostPaths :
        /\ ServerFree
        /\ req' = Request(method, "path", "", path)
        /\ resp' = UnsupportedMethod(method)
        /\ hist' = <<>>
        /\ burst' = NoBurst
        /\ UNCHANGED <<jobs, job_outputs, uuidCount, clock, issued, pc, cmp>>

----------------------------------------------------------------------------
\* run-comparison.py: test_endpoint sends one request to both servers and
\* compares the two answers. The bodies are parsed JSON: None, texts,
\* numbers, and dicts and lists tagged as such.

JDict(d) == [t |-> "dict", v |-> d]
JList(l) == [t |-> "list", v |-> l]

IGNORE_FIELDS == {"id", "jobId", "created_at", "updated_at", "timestamps"}

\* value.replace('http://localhost:8081', '').replace('http://localhost:8080', '')
\* for the texts that contain 'http'
StripHost(text) ==
    CASE text = "http://localhost:8080/api/v1/specs" -> "/api/v1/specs"
      [] text = "http://localhost:8081/api/v1/specs" -> "/api/v1/specs"
      [] OTHER -> text

RECURSIVE normalize_response(_)
normalize_response(data) ==
    IF data.t = "dict"
    THEN JDict([key \in DOMAIN data.v \ IGNORE_FIELDS |->
                  normalize_response(IF IsStr(data.v[key])
                                     THEN JStr(StripHost(data.v[key].v))
                                     ELSE data.v[key])])
    ELSE IF data.t = "list"
    THEN JList([i \in DOMAIN data.v |-> normalize_response(data.v[i])])
    ELSE data

\* compare_responses(java_response, rails_response) # []
RECURSIVE HasDifferences(_, _)
HasDifferences(java_response, rails_response) ==
    IF java_response.t # rails_response.t THEN TRUE
    ELSE IF java_response.t = "dict"
    THEN \/ DOMAIN java_response.v # DOMAIN rails_response.v
         \/ \E key \in DOMAIN java_response.v \cap DOMAIN rails_response.v :
               HasDifferences(java_response.v[key], rails_response.v[key])
    ELSE IF java_response.t = "list"
    THEN \/ Len(java_response.v) # Len(rails_response.v)
         \/ \E i \in DOMAIN java_response.v :
               HasDifferences(java_response.v[i], rails_response.v[i])
    ELSE java_response # rails_response

\* the value test_endpoint returns
TestEndpointResult(java_status, java_body, rails_status, rails_body) ==
    IF java_status # rails_status THEN FALSE
    ELSE IF java_body # None /\ rails_body # None
    THEN ~HasDifferences(normalize_response(java_body), normalize_response(rails_body))
    ELSE TRUE

NoComparison ==
    [java_status |-> 0, java_body |-> None,
     rails_status |-> 0, rails_body |-> None, result |-> FALSE]

\* The answers the two servers give: a status and a parsed body (None for an
\* empty body).
CmpStatuses == {200, 404}

CmpBodies ==
    {None,
     JStr("not json"),
     JDict(EmptyDict),
     JDict([error |-> JStr("Not found")]),
     JDict([id |-> JStr("a"), name |-> JStr("n")]),
     JDict([id |-> JStr("b"), name |-> JStr("n")]),
     JDict([href |-> JStr("http://localhost:8080/api/v1/specs")]),
     JDict([href |-> JStr("/api/v1/specs")]),
     JDict([entries |-> JList(<<>>)]),
     JDict([entries |-> JList(<<JDict([id |-> JStr("a"), total |-> JInt("1")])>>)]),
     JDict([entries |-> JList(<<JDict([id |-> JStr("b"), total |-> JInt("2")])>>)])}

TestEndpoint ==
    \E java_status \in CmpStatuses, rails_status \in CmpStatuses,
       java_body \in CmpBodies, rails_body \in CmpBodies :
        /\ cmp' = [java_status |-> java_status, java_body |-> java_body,
                   rails_status |-> rails_status, rails_body |-> rails_body,
                   result |-> TestEndpointResult(java_status, java_body,
                                                 rails_status, rails_body)]
        /\ UNCHANGED <<jobs, job_outputs, uuidCount, clock, req, resp, hist,
                       issued, burst, pc>>

----------------------------------------------------------------------------

Init ==
    /\ jobs = <<>>
    /\ job_outputs = <<>>
    /\ uuidCount = 0
    /\ clock = 0
    /\ req = Request("", "", "", EmptyDict)
    /\ resp = NoResponse
    /\ hist = <<>>
    /\ issued = <<>>
    /\ burst = NoBurst
    /\ pc = Idle
    /\ cmp = NoComparison

Next ==
    \/ CreateJob
    \/ Abort
    \/ Delete
    \/ GetJob
    \/ GetOutput
    \/ GetInputs
    \/ GetJobSpec
    \/ ListJobs
    \/ ListSpecs

Spec == Init /\ [][Next]_vars

----------------------------------------------------------------------------
\* The handlers with the two deletions of do_DELETE as separate steps: what
\* a request could observe between them, were it handled meanwhile.

NextSteps ==
    \/ CreateJob
    \/ DeleteBegin
    \/ DeleteEnd
    \/ GetJob
    \/ GetOutput
    \/ GetInputs
    \/ ListJobs

SpecSteps == Init /\ [][NextSteps]_vars

----------------------------------------------------------------------------
\* GET on the fixed routes and on paths outside the route table, against
\* every store the submissions and deletions produce.

NextRoutes ==
    \/ CreateJob
    \/ Delete
    \/ GetPath
    \/ PostPath
    \/ OtherMethod

SpecRoutes == Init /\ [][NextRoutes]_vars

----------------------------------------------------------------------------
\* Every GET the server answers, against every store the submissions and
\* deletions produce.

NextReads ==
    \/ CreateJob
    \/ Delete
    \/ GetJob
    \/ GetOutput
    \/ GetInputs
    \/ GetJobSpec
    \/ ListJobs
    \/ ListSpecs
    \/ GetPath

SpecReads == Init /\ [][NextReads]_vars

----------------------------------------------------------------------------
\* The comparison script, run on the answers of two servers.

NextCompare ==
    \/ TestEndpoint

SpecCompare == Init /\ [][NextCompare]_vars

----------------------------------------------------------------------------
\* Paging through a longer job table: submissions, deletions and listings of
\* up to MaxListed jobs.

MaxListed == 3

ListBodies ==
    {EmptyDict,
     [spec |-> JStr("echo")],
     [spec |-> JStr("sleep")],
     [spec |-> JStr("echo"), name |-> JStr("<script>alert('XSS')</script>")]}

ListIds == {Uuid4(n) : n \in 1..MaxListed}

ListQueries ==
    {EmptyDict,
     ("page-size" :> "0"),
     ("page-size" :> "2"),
     ("page" :> "1"),
     ("page" :> "0") @@ ("page-size" :> "1"),
     ("page" :> "1") @@ ("page-size" :> "1"),
     ("page" :> "2") @@ ("page-size" :> "1"),
     ("page" :> "1") @@ ("page-size" :> "2"),
     ("page" :> "3") @@ ("page-size" :> "3")}

ListCreate == CreateJobOf(ListBodies, MaxListed)

ListDelete == DeleteOf(ListIds, {"job"})

ListPage == ListJobsOf(ListQueries)

NextList ==
    \/ ListCreate
    \/ ListDelete
    \/ ListPage

SpecList == Init /\ [][NextList]_vars

----------------------------------------------------------------------------
\* Vocabulary of the properties

\* the ids of the specs of the catalog
CatalogIds == {JStr(SpecEntries[i].id) : i \in DOMAIN SpecEntries}

\* a terminal status
IsTerminal(status) == status \in {"FINISHED", "ABORTED"}

\* the status changes the state machine allows
AllowedTransitions ==
    {<<"SUBMITTED", "FINISHED">>, <<"SUBMITTED", "ABORTED">>, <<"RUNNING", "ABORTED">>}

\* the step handles POST /api/v1/jobs/{j}/abort
IsAbortOf(j) == req'.method = "POST" /\ req'.route = "abort" /\ req'.id = j

\* the step handles POST /api/v1/jobs
IsCreate == req'.method = "POST" /\ req'.route = "jobs"

----------------------------------------------------------------------------
\* C1: an abort of a stored job whose status is already terminal is answered
\* 409 and leaves the job's record unchanged.
C1_AbortTerminalIsConflict ==
    [][\A j \in Keys(jobs) :
          (IsAbortOf(j) /\ IsTerminal(Lookup(jobs, j).latestStatus))
              => /\ resp'.status = 409
                 /\ Has(jobs', j)
                 /\ Lookup(jobs', j) = Lookup(jobs, j)]_vars

\* C2: the status of a stored job changes only along SUBMITTED->FINISHED,
\* SUBMITTED->ABORTED or RUNNING->ABORTED; a terminal status never changes.
C2_OnlyAllowedTransitions ==
    [][\A j \in Keys(jobs) \cap Keys(jobs') :
          LET old == Lookup(jobs, j).latestStatus
              new == Lookup(jobs', j).latestStatus
          IN  old # new => <<old, new>> \in AllowedTransitions]_vars

\* C3: in every reachable state, for every stored job, timestamps.finished
\* is non-null if and only if the status is FINISHED or ABORTED.
C3_FinishedIffTerminal ==
    \A j \in Keys(jobs) :
        (Lookup(jobs, j).timestamps.finished # None)
            <=> IsTerminal(Lookup(jobs, j).latestStatus)

\* C4: an abort of a stored job whose status is not terminal is answered
\* 200, sets the status to ABORTED and timestamps.finished to a non-null value.
C4_AbortStampsFinished ==
    [][\A j \in Keys(jobs) :
          (IsAbortOf(j) /\ ~IsTerminal(Lookup(jobs, j).latestStatus))
              => /\ resp'.status = 200
                 /\ Has(jobs', j)
                 /\ Lookup(jobs', j).latestStatus = "ABORTED"
                 /\ Lookup(jobs', j).timestamps.finished # None]_vars

\* C5: when POST /api/v1/jobs is answered 200 the job in the response and in
\* the store is FINISHED, and no stored job has status SUBMITTED between two
\* requests.
C5_CreatedJobIsFinished ==
    /\ (req.method = "POST" /\ req.route = "jobs" /\ resp.status = 200)
          => /\ resp.body.latestStatus = "FINISHED"
             /\ Has(jobs, resp.body.id)
             /\ Lookup(jobs, resp.body.id).latestStatus = "FINISHED"
    /\ \A j \in Keys(jobs) : Lookup(jobs, j).latestStatus # "SUBMITTED"

\* C6: a POST /api/v1/jobs whose spec is missing or is not the id of a
\* catalog spec is answered 400 and changes neither table nor the total a
\* listing reports (the body being a JSON object: a body that is no JSON has
\* no fields to speak of, and is C17's case).
C6_InvalidSpecRejected ==
    [][(/\ IsCreate
        /\ Parses(req'.data)
        /\ DictGet(req'.data, "spec", None) \notin CatalogIds)
          => /\ resp'.status = 400
             /\ jobs' = jobs
             /\ job_outputs' = job_outputs
             /\ Listing(jobs', 0, 100).body.total = Listing(jobs, 0, 100).body.total]_vars

\* C6 witness: a submission naming no catalog spec was refused while the
\* store held a job.
C6_Witness ==
    /\ req.method = "POST" /\ req.route = "jobs"
    /\ DictGet(req.data, "spec", None) \notin CatalogIds
    /\ resp.status = 400
    /\ Len(jobs) >= 1

\* C7: for a stored job, GET, DELETE, GET on /api/v1/jobs/{id} in a row are
\* answered 200, 200, 404, whatever other jobs the store holds.
C7_GetDeleteGet ==
    Len(hist) = 3 =>
        <<hist[1].status, hist[2].status, hist[3].status>> = <<200, 200, 404>>

\* C7 witness: the sequence was completed on one job while another is stored.
C7_Witness ==
    /\ Len(hist) = 3
    /\ hist[1].op = "get" /\ hist[2].op = "delete" /\ hist[3].op = "get"
    /\ Len(jobs) >= 1

\* C8: every id with an outputs record is the id of a stored job, and after
\* a successful DELETE of job j neither table contains j.
C8_NoOrphanOutputs ==
    /\ Keys(job_outputs) \subseteq Keys(jobs)
    /\ (req.method = "DELETE" /\ req.route = "job" /\ resp.status = 200)
          => ~Has(jobs, req.id) /\ ~Has(job_outputs, req.id)

\* C8 witness: a job that had an outputs record was deleted, another with an
\* outputs record remains.
C8_Witness ==
    /\ req.method = "DELETE" /\ req.route = "job" /\ resp.status = 200
    /\ req.id = Uuid4(1)
    /\ Keys(job_outputs) = {Uuid4(2)}

\* C9: the set of ids that have an outputs record equals the set of ids of
\* stored jobs.
C9_OneOutputsPerJob == Keys(job_outputs) = Keys(jobs)

\* C10: once a job's status is terminal, its timestamps and its stdout and
\* stderr keep their values under every later request, until it is deleted.
C10_TerminalFrozen ==
    [][\A j \in Keys(jobs) \cap Keys(jobs') :
          IsTerminal(Lookup(jobs, j).latestStatus)
              => /\ Lookup(jobs', j).timestamps = Lookup(jobs, j).timestamps
                 /\ Has(job_outputs', j) = Has(job_outputs, j)
                 /\ \A stream \in {"stdout", "stderr"} :
                       ReadOutput(job_outputs', j, stream)
                           = ReadOutput(job_outputs, j, stream)]_vars

\* C10 witness: a FINISHED echo job was aborted after a later job was created
\* and still shows the finished time and the output of its run.
C10_Witness ==
    /\ req.method = "POST" /\ req.route = "abort"
    /\ Has(jobs, req.id)
    /\ clock > 3
    /\ Lookup(jobs, req.id).timestamps.finished = IsoFormat(3)
    /\ ReadOutput(job_outputs, req.id, "stdout") = "hi\n"

\* C11: every id allocated by a successful create differs from the id of
\* every job created earlier, deleted ones included.
C11_IdNeverReused ==
    /\ \A i, k \in DOMAIN issued : i < k => issued[i] # issued[k]
    /\ (req.method = "POST" /\ req.route = "jobs" /\ resp.status = 200)
          => /\ issued # <<>>
             /\ resp.body.id = issued[Len(issued)]

\* C11 witness: a job was created and answered 200 after the job created
\* before it had been deleted.
C11_Witness ==
    /\ req.method = "POST" /\ req.route = "jobs" /\ resp.status = 200
    /\ Len(issued) = 2
    /\ Keys(jobs) = {issued[2]}

IsListed ==
    /\ req.method = "GET"
    /\ req.route = "jobs"
    /\ IsInt(PageText(req.data))
    /\ IsInt(PageSizeText(req.data))

\* C14: GET /api/v1/jobs?page-size=N returns at most N entries for every
\* non-negative integer N (none for N = 0), and the returned total is the
\* number of jobs stored, whatever N and page are.
C14_PageSizeBoundsEntries ==
    IsListed
      => /\ resp.status = 200
         /\ Len(resp.body.entries) <= IntOf(PageSizeText(req.data))
         /\ resp.body.total = Cardinality(Keys(jobs))

\* C14 witness: with two jobs stored, page-size=1 returned one entry and a
\* total of two.
C14_Witness ==
    /\ IsListed
    /\ "page" \notin DOMAIN req.data
    /\ PageSizeText(req.data) = "1"
    /\ Cardinality(Keys(jobs)) = 2
    /\ Len(resp.body.entries) = 1
    /\ resp.body.total = 2

\* the stored jobs in the order of their creation
CreationOrder ==
    LET ids == SelectSeq(issued, LAMBDA id : Has(jobs, id))
    IN  [i \in DOMAIN ids |-> Lookup(jobs, ids[i])]

\* C15: for non-negative page and pageSize (defaults 0 and 100) the entries
\* are the jobs at positions [page*pageSize, page*pageSize+pageSize) of the
\* stored jobs in creation order, also after deletions; a page at or beyond
\* the job count is answered 200 with no entries.
C15_SliceInCreationOrder ==
    IsListed
      => LET page == IntOf(PageText(req.data))
             page_size == IntOf(PageSizeText(req.data))
             first == page * page_size
         IN  /\ resp.status = 200
             /\ resp.body.entries
                  = [i \in 1..Len(resp.body.entries) |-> CreationOrder[first + i]]
             /\ Len(resp.body.entries)
                  = IF first >= Len(CreationOrder) THEN 0
                    ELSE IF first + page_size <= Len(CreationOrder) THEN page_size
                    ELSE Len(CreationOrder) - first

\* C15 witness: after the first of three jobs was deleted, page 1 of size 1
\* returned the job created last.
C15_Witness ==
    /\ IsListed
    /\ PageText(req.data) = "1"
    /\ PageSizeText(req.data) = "1"
    /\ Len(issued) = 3
    /\ Keys(jobs) = {issued[2], issued[3]}
    /\ resp.body.entries = <<Lookup(jobs, issued[3])>>

\* C16: GET on the sub-resources inputs, spec, stdout and stderr of
\* /api/v1/jobs/{id} is answered 404 for every id that is not the id of a
\* stored job.
C16_SubResourceOfUnknownJob ==
    (/\ req.method = "GET"
     /\ req.route \in {"inputs", "spec", "stdout", "stderr"}
     /\ ~Has(jobs, req.id))
      => resp.status = 404

\* C17: a POST /api/v1/jobs whose body is not valid JSON is answered 400 or
\* 422 and creates no job.
C17_MalformedBodyRejected ==
    [][(IsCreate /\ ~Parses(req'.data))
          => /\ resp'.status \in {400, 422}
             /\ jobs' = jobs]_vars

\* C18: every POST /api/v1/jobs whose body is a JSON object naming a catalog
\* spec is answered 200, whatever its inputs are; a failing execution shows
\* only as stderr text of a FINISHED job.
C18_ValidSubmissionAnswered ==
    [][(/\ IsCreate
        /\ Parses(req'.data)
        /\ DictGet(req'.data, "spec", None) \in CatalogIds)
          => /\ resp'.status = 200
             /\ Has(jobs', resp'.body.id)]_vars

\* C19: a job leaves the store only by DELETE on exactly /api/v1/jobs/{id};
\* a DELETE on a sub-resource path of a job and every POST remove nothing.
C19_OnlyDeleteRemoves ==
    [][(Keys(jobs) \ Keys(jobs') # {})
          => /\ req'.method = "DELETE"
             /\ req'.route = "job"
             /\ Keys(jobs) \ Keys(jobs') = {req'.id}]_vars

\* the paths of the route table of GET
Routed(path) ==
    \/ path \in {<<>>, <<"api", "v1">>, <<"api", "v1", "specs">>,
                 <<"api", "v1", "jobs">>, <<"api", "v1", "jobs", "events">>,
                 <<"api", "v1", "users", "current">>}
    \/ Len(path) = 4 /\ SubSeq(path, 1, 3) \in {<<"api", "v1", "specs">>, <<"api", "v1", "jobs">>}
    \/ /\ Len(path) = 5
       /\ SubSeq(path, 1, 3) = <<"api", "v1", "jobs">>
       /\ path[5] \in {"inputs", "spec", "stdout", "stderr"}
    \/ /\ Len(path) = 6
       /\ SubSeq(path, 1, 3) = <<"api", "v1", "jobs">>
       /\ path[5] \in {"stdout", "stderr"}
       /\ path[6] = "updates"

\* C20: every GET whose path matches no route of the table is answered 404
\* with a response sent: /api/v2, a path with extra segments below a job
\* sub-resource, a path outside /api/v1/jobs that contains /stdout/updates.
C20_UnroutedGetIsNotFound ==
    (req.method = "GET" /\ req.route = "path" /\ ~Routed(req.data))
      => resp.status = 404

\* job j is half-removed: absent from the job table, its outputs still there
HalfRemoved(j) == ~Has(jobs, j) /\ Has(job_outputs, j)

\* C13: handlers act on the store one at a time: while a DELETE of job j is
\* being handled, no GET (detail, inputs, stdout, stderr or listing) is
\* handled in a state where j is gone from the job table and its outputs
\* record is still present.
C13_NoHalfRemovedObserved ==
    [][(req'.method = "GET") => \A j \in ReqIds : ~HalfRemoved(j)]_vars

\* C13 witness: a DELETE is between its two deletions, the job half-removed.
C13_Witness ==
    /\ pc.at = "del_outputs"
    /\ req.method = "DELETE"
    /\ HalfRemoved(pc.job_id)

\* the step handles a request whose path is a route that does not support
\* the request's method
IsUnsupported ==
    \/ /\ req'.method \in {"PATCH", "PUT", "POST"}
       /\ req'.route = "path"
       /\ req'.data = <<"api", "v1", "specs">>
    \/ /\ req'.method = "DELETE"
       /\ req'.route \in {"inputs", "spec", "stdout", "stderr"}

\* C21: a request whose path matches a route but whose method the route does
\* not support (PATCH /api/v1/specs, POST /api/v1/specs, DELETE on a job
\* sub-resource) is answered 405 and changes no state.
C21_UnsupportedMethodIs405 ==
    [][IsUnsupported
          => /\ resp'.status = 405
             /\ jobs' = jobs
             /\ job_outputs' = job_outputs]_vars

\* the step handles GET, DELETE or abort on the job path of id j
IsJobRequest(j) ==
    /\ req'.id = j
    /\ \/ req'.method \in {"GET", "DELETE"} /\ req'.route = "job"
       \/ req'.method = "POST" /\ req'.route = "abort"

\* C22: GET, DELETE and abort on a job id that is not the id of a stored job
\* are each answered 404 and leave the job table and the output table
\* unchanged.
C22_UnknownJobIsNotFound ==
    [][\A j \in ReqIds :
          (IsJobRequest(j) /\ ~Has(jobs, j))
            => /\ resp'.status = 404
               /\ jobs' = jobs
               /\ job_outputs' = job_outputs]_vars

\* C22 witness: an abort on an id that is not stored was answered 404 while
\* the store held a job with its outputs.
C22_Witness ==
    /\ req.method = "POST" /\ req.route = "abort"
    /\ ~Has(jobs, req.id)
    /\ resp.status = 404
    /\ jobs # <<>>
    /\ job_outputs # <<>>

\* C23: GET /api/v1/jobs/{id}/inputs returns exactly the inputs mapping
\* supplied at creation, at every point of the job's lifetime: the job is
\* stored with the inputs of its submission (the empty mapping when none was
\* given), no request changes the inputs of a stored job, and the inputs
\* sub-resource answers 200 with them.
C23_InputsPreserved ==
    [][/\ \A j \in Keys(jobs') \ Keys(jobs) :
             Lookup(jobs', j).inputs = DictGet(req'.data, "inputs", EmptyDict)
       /\ \A j \in Keys(jobs') \cap Keys(jobs) :
             Lookup(jobs', j).inputs = Lookup(jobs, j).inputs
       /\ (req'.method = "GET" /\ req'.route = "inputs" /\ Has(jobs, req'.id))
             => /\ resp'.status = 200
                /\ resp'.body = Lookup(jobs, req'.id).inputs]_vars

\* C23 witness: the inputs of an aborted job were read back as submitted.
C23_Witness ==
    /\ req.method = "GET" /\ req.route = "inputs"
    /\ Has(jobs, req.id)
    /\ Lookup(jobs, req.id).latestStatus = "ABORTED"
    /\ resp.status = 200
    /\ resp.body = [message |-> JStr("hi")]

\* the last request was GET of the given output stream of a stored echo job
\* whose message, where one was submitted, is a text
IsEchoOutput(stream) ==
    /\ req.method = "GET" /\ req.route = stream
    /\ Has(jobs, req.id)
    /\ Lookup(jobs, req.id).spec = JStr("echo")
    /\ IsStr(DictGet(Lookup(jobs, req.id).inputs, "message", JStr("")))

\* C24: for a job created against spec echo, GET .../stdout returns the
\* submitted inputs.message followed by one newline ('Hello, World!' and a
\* newline when message is omitted), GET .../stderr returns the empty text,
\* and the job's status is FINISHED.
C24_EchoOutputs ==
    /\ IsEchoOutput("stdout")
          => /\ resp.status = 200
             /\ resp.body = DictGet(Lookup(jobs, req.id).inputs, "message",
                                     JStr("Hello, World!")).v \o "\n"
    /\ IsEchoOutput("stderr") => (resp.status = 200 /\ resp.body = "")
    /\ (/\ req.method = "POST" /\ req.route = "jobs"
        /\ Parses(req.data)
        /\ DictGet(req.data, "spec", None) = JStr("echo"))
          => /\ resp.status = 200
             /\ resp.body.latestStatus = "FINISHED"

\* C25: in every reachable state each stored job's spec reference is the id
\* of a spec of the catalog, and no request changes the spec reference of a
\* stored job after creation.
C25_SpecReferenceValid ==
    [][/\ \A j \in Keys(jobs') : Lookup(jobs', j).spec \in CatalogIds
       /\ \A j \in Keys(jobs') \cap Keys(jobs) :
             Lookup(jobs', j).spec = Lookup(jobs, j).spec]_vars

\* C25 witness: the store holds an echo job and an aborted sleep job.
C25_Witness ==
    \E i, k \in DOMAIN jobs :
        /\ jobs[i].val.spec = JStr("echo")
        /\ jobs[k].val.spec = JStr("sleep")
        /\ jobs[k].val.latestStatus = "ABORTED"

\* C26: for every stored job, GET /api/v1/jobs/{id}/spec is answered 200
\* with the spec detail GET /api/v1/specs/{specId} returns for the job's
\* spec.
C26_JobSpecIsSpecDetail ==
    (req.method = "GET" /\ req.route = "spec" /\ Has(jobs, req.id))
      => /\ resp.status = 200
         /\ resp.body = SpecDetail(Lookup(jobs, req.id).spec.v)

\* the last request was GET on one of the three websocket paths
IsWebSocketPath(r) ==
    /\ r.method = "GET" /\ r.route = "path"
    /\ \/ r.data = <<"api", "v1", "jobs", "events">>
       \/ /\ Len(r.data) = 6
          /\ SubSeq(r.data, 1, 3) = <<"api", "v1", "jobs">>
          /\ r.data[5] \in {"stdout", "stderr"}
          /\ r.data[6] = "updates"

\* C27: GET on /api/v1/jobs/events, /api/v1/jobs/{id}/stdout/updates and
\* /api/v1/jobs/{id}/stderr/updates is answered 426 with an Upgrade header,
\* for every id (stored or not) and every store content, and leaves the
\* store unchanged.
C27_WebSocketUpgrade ==
    [][IsWebSocketPath(req')
          => /\ resp'.status = 426
             /\ "upgrade" \in DOMAIN resp'
             /\ jobs' = jobs
             /\ job_outputs' = job_outputs]_vars

\* C27 witness: the stdout updates of a stored job were answered 426.
C27_Witness ==
    /\ IsWebSocketPath(req)
    /\ Len(req.data) = 6
    /\ Has(jobs, req.data[4])
    /\ resp.status = 426

\* the text of a path, as a client writes it
RECURSIVE PathText(_)
PathText(path) ==
    IF path = <<>> THEN ""
    ELSE PathText(SubSeq(path, 1, Len(path) - 1)) \o "/" \o path[Len(path)]

\* the ids of the spec listing
ListedIds == {SpecEntries[i].id : i \in DOMAIN SpecEntries}

\* C28: for every entry of the spec listing, GET on the entry's href is
\* answered 200 with a body whose id is the entry's id, and GET
\* /api/v1/specs/{x} for any x that is not a listed id is answered 404.
C28_SpecHrefs ==
    (req.method = "GET" /\ req.route = "path")
      => /\ \A i \in DOMAIN SpecEntries :
               PathText(req.data) = SpecEntries[i].href
                 => (resp.status = 200 /\ resp.body.id = SpecEntries[i].id)
         /\ (/\ Len(req.data) = 4
             /\ SubSeq(req.data, 1, 3) = <<"api", "v1", "specs">>
             /\ req.data[4] \notin ListedIds)
               => resp.status = 404

\* C28 witness: the href of the second listing entry was fetched.
C28_Witness ==
    /\ req.method = "GET" /\ req.route = "path"
    /\ PathText(req.data) = SpecEntries[2].href
    /\ resp.status = 200
    /\ resp.body.id = "sleep"

\* the characters of a job id after its first eight
IdTail == "-0000-4000-8000-000000000000"

\* label is 'Job ' followed by the first 8 characters of job_id
IsGeneratedLabel(label, job_id) ==
    \E n \in 1..9 :
        /\ job_id = Prefix8(n) \o IdTail
        /\ label = JStr("Job " \o Prefix8(n))

C30_NonIntegerPageAnswered ==
    [][(/\ req'.method = "GET" /\ req'.route = "jobs"
        /\ ~(IsInt(PageText(req'.data)) /\ IsInt(PageSizeText(req'.data))))
          => /\ resp'.status \in {200, 400}
             /\ jobs' = jobs
             /\ job_outputs' = job_outputs]_vars

\* C38: test_endpoint reports a match only when both servers answered with
\* the same status code and their bodies, after normalization, show no
\* structural difference; a response with a body never matches a response
\* without one.
C38_MatchMeansSameAnswer ==
    cmp.result
      => /\ cmp.java_status = cmp.rails_status
         /\ (cmp.java_body = None) <=> (cmp.rails_body = None)
         /\ (cmp.java_body # None /\ cmp.rails_body # None)
               => normalize_response(cmp.java_body) = normalize_response(cmp.rails_body)

\* the texts in use that contain the markup '<script>'
HasScript(value) == value \in {JStr("<script>alert('XSS')</script>")}

\* C31: if a submission whose name contains '<script>' is accepted with 200,
\* the name in the response and in the stored job does not contain
\* '<script>': the name is sanitized or the submission is rejected with 400.
C31_ScriptNameSanitized ==
    (/\ req.method = "POST" /\ req.route = "jobs"
     /\ Parses(req.data)
     /\ HasScript(DictGet(req.data, "name", None)))
      => \/ resp.status = 400
         \/ /\ resp.status = 200
            /\ ~HasScript(resp.body.name)
            /\ ~HasScript(Lookup(jobs, resp.body.id).name)

\* C32: job creation is all-or-nothing: a POST /api/v1/jobs that is not
\* answered with 200 leaves the job table and the output table exactly as
\* they were before the request.
C32_CreationAllOrNothing ==
    [][(IsCreate /\ resp'.status # 200)
          => /\ jobs' = jobs
             /\ job_outputs' = job_outputs]_vars

\* C33: every GET request (root, API root, spec list and detail, job list
\* and detail, inputs, spec, stdout, stderr, streaming routes, current user,
\* unknown paths) leaves the job table and the output table unchanged.
C33_GetIsReadOnly ==
    [][(req'.method = "GET")
          => /\ jobs' = jobs
             /\ job_outputs' = job_outputs]_vars

\* C33 witness: the detail of a stored job was read and the job and its
\* outputs are still stored.
C33_Witness ==
    /\ req.method = "GET" /\ req.route = "job"
    /\ resp.status = 200
    /\ Has(jobs, req.id)
    /\ Has(job_outputs, req.id)
    /\ resp.body = Lookup(jobs, req.id)

\* C34: an abort of job j changes nothing but j's status (and its finished
\* timestamp): the number of stored jobs, the record of every other job, j's
\* id, name, spec and inputs, and all outputs records are unchanged.
C34_AbortFrame ==
    [][\A j \in ReqIds :
          (IsAbortOf(j) /\ Has(jobs, j))
            => /\ Len(jobs') = Len(jobs)
               /\ \A i \in DOMAIN jobs :
                     /\ jobs'[i].key = jobs[i].key
                     /\ jobs[i].key # j => jobs'[i] = jobs[i]
                     /\ jobs[i].key = j =>
                           /\ jobs'[i].val.id = jobs[i].val.id
                           /\ jobs'[i].val.name = jobs[i].val.name
                           /\ jobs'[i].val.spec = jobs[i].val.spec
                           /\ jobs'[i].val.inputs = jobs[i].val.inputs
                           /\ jobs'[i].val.timestamps.submitted
                                = jobs[i].val.timestamps.submitted
                           /\ jobs'[i].val.timestamps.started
                                = jobs[i].val.timestamps.started
               /\ job_outputs' = job_outputs]_vars

\* C34 witness: the second of two jobs was aborted, the first is FINISHED
\* and the second still has its inputs.
C34_Witness ==
    /\ req.method = "POST" /\ req.route = "abort"
    /\ resp.status = 200
    /\ Len(jobs) = 2
    /\ jobs[2].key = req.id
    /\ jobs[2].val.latestStatus = "ABORTED"
    /\ jobs[2].val.inputs # EmptyDict
    /\ jobs[1].val.latestStatus = "FINISHED"

\* C35: a successful DELETE of job j leaves the record and the outputs of
\* every other job unchanged, lowers the listing's total by exactly one, and
\* keeps the remaining jobs in their original relative order.
C35_DeleteFrame ==
    [][(req'.method = "DELETE" /\ resp'.status = 200 /\ Has(jobs, req'.id))
          => /\ jobs' = SelectSeq(jobs, LAMBDA e : e.key # req'.id)
             /\ job_outputs' = SelectSeq(job_outputs, LAMBDA e : e.key # req'.id)
             /\ Len(jobs') = Len(jobs) - 1]_vars

\* C35 witness: the second of three jobs was deleted; the first and the
\* third are stored, in that order.
C35_Witness ==
    /\ req.method = "DELETE"
    /\ resp.status = 200
    /\ Len(issued) = 3
    /\ req.id = issued[2]
    /\ Len(jobs) = 2
    /\ jobs[1].key = issued[1]
    /\ jobs[2].key = issued[3]

\* C36: a job created against spec sleep is never run: it stays SUBMITTED
\* with timestamps.finished null and no outputs record until it is aborted
\* or deleted, it never reaches FINISHED, and its stdout and stderr read as
\* empty text with status 200.
C36_SleepNeverRuns ==
    /\ \A i \in DOMAIN jobs :
          jobs[i].val.spec = JStr("sleep")
            => /\ jobs[i].val.latestStatus \in {"SUBMITTED", "ABORTED"}
               /\ jobs[i].val.timestamps.finished = None
               /\ ~Has(job_outputs, jobs[i].key)
    /\ (/\ req.method = "GET"
        /\ req.route \in {"stdout", "stderr"}
        /\ Has(jobs, req.id)
        /\ Lookup(jobs, req.id).spec = JStr("sleep"))
          => /\ resp.status = 200
             /\ resp.body = ""

\* C36 witness: the stdout of a stored sleep job, still SUBMITTED, was read.
C36_Witness ==
    /\ req.method = "GET" /\ req.route = "stdout"
    /\ Has(jobs, req.id)
    /\ Lookup(jobs, req.id).spec = JStr("sleep")
    /\ Lookup(jobs, req.id).latestStatus = "SUBMITTED"
    /\ resp.status = 200

\* C37: in every reachable state each job is stored under a key equal to its
\* own id field (so the id field of a stored job never changes) and its
\* status is one of SUBMITTED, FINISHED, ABORTED; RUNNING is never reached.
C37_KeyIsIdAndStatusKnown ==
    \A i \in DOMAIN jobs :
        /\ jobs[i].val.id = jobs[i].key
        /\ jobs[i].val.latestStatus \in {"SUBMITTED", "FINISHED", "ABORTED"}
        /\ \A k \in DOMAIN jobs : jobs[k].key = jobs[i].key => k = i

\* C37 witness: the store holds a FINISHED job and an ABORTED one.
C37_Witness ==
    /\ Len(jobs) = 2
    /\ jobs[1].val.latestStatus = "FINISHED"
    /\ jobs[2].val.latestStatus = "ABORTED"
    /\ jobs[2].val.id = issued[2]

====
